---- MODULE Spec2Model ----
(***************************************************************************)
(* Model of src/CBC.py: the Dash callback update_graph and the browser     *)
(* state it reads and writes (data-store, drawing-store,                   *)
(* shaded-circles-store, the figure, the retained relayoutData property    *)
(* and the input widgets).                                                 *)
(*                                                                         *)
(* Encodings.  A Python value that may be None (or a pandas NaN, or a JSON *)
(* null) is a sequence of length at most one: <<>> is None and <<v>> is    *)
(* the value v.  Numbers are integers.  A square root is not evaluated: a  *)
(* shape coordinate mean -/+ sqrt(var) is kept as the record               *)
(* [mean, sign, sqrt_of].  A fraction is the record [num, den].            *)
(***************************************************************************)
EXTENDS Integers, Sequences, FiniteSets, TLC

(* Bounds of the model: the longest lists the stores are let grow to. *)
MaxRecords == 2
MaxDrawings == 2
MaxCircles == 1

None == <<>>
Some(v) == <<v>>

(* src/CBC.py:11-15 *)
pitch_types ==
  << "Fastball", "Changeup", "Curveball", "Slider", "Sinker", "Splitter",
     "Cutter", "Circle Change", "Knuckle Curve", "Slurve", "Sweeper",
     "Knuckleball" >>

(* The table when the entry added out of the catalog's order is left out. *)
pitch_colors_without_sweeper ==
  ("Fastball" :> "red") @@ ("Changeup" :> "lime") @@ ("Curveball" :> "blue") @@
  ("Slider" :> "gold") @@ ("Sinker" :> "orange") @@ ("Splitter" :> "teal") @@
  ("Cutter" :> "saddlebrown") @@
  ("Circle Change" :> "purple") @@ ("Knuckle Curve" :> "pink") @@
  ("Slurve" :> "cyan") @@ ("Knuckleball" :> "gray")

(* src/CBC.py:18-31 *)
pitch_colors ==
  ("Fastball" :> "red") @@ ("Changeup" :> "lime") @@ ("Curveball" :> "blue") @@
  ("Slider" :> "gold") @@ ("Sinker" :> "orange") @@ ("Splitter" :> "teal") @@
  ("Cutter" :> "saddlebrown") @@ ("Sweeper" :> "goldenrod") @@
  ("Circle Change" :> "purple") @@ ("Knuckle Curve" :> "pink") @@
  ("Slurve" :> "cyan") @@ ("Knuckleball" :> "gray")

(* The defaults of the widgets in the layout, src/CBC.py:54-94. *)
DefaultNumber == Some(0)
DefaultPitch == "Fastball"
DefaultColor == "red"

(***************************************************************************)
(* The values the user gives the widgets.  A dcc.Input of type "number"    *)
(* holds None when its field is empty and a number otherwise; the          *)
(* dropdowns are not clearable and hold one of their options.  A profile   *)
(* names the values the events of one specification draw from:             *)
(*   readings  (horizontal-movement, vertical-movement, pitch-speed)       *)
(*   pitches   options of the pitch-type dropdown                          *)
(*   colors    options of the draw-color dropdown                          *)
(*   circles   (circle-x, circle-y, circle-radius)                         *)
(*   names     values of the athlete-name input                            *)
(*   paths     geometries of a drawn path                                  *)
(*   older     how many of the layout's shapes a draw payload lists before *)
(*             the new one (the callback reads the last one only)          *)
(***************************************************************************)
PointsProfile ==
  [readings |-> { << Some(0), Some(0), Some(0) >>,
                  << Some(1), Some(2), Some(90) >>,
                  << None, Some(2), None >> },
   pitches  |-> { pitch_types[1], pitch_types[2] },
   colors   |-> { pitch_colors[pitch_types[1]] },
   circles  |-> { << Some(0), Some(0), Some(0) >>, << Some(0), Some(0), None >> },
   names    |-> { "", "Kev" },
   paths    |-> { "M0,0L1,1" },
   older    |-> { 0 }]

ShapesProfile ==
  [readings |-> { << Some(0), Some(0), Some(0) >> },
   pitches  |-> { pitch_types[1] },
   colors   |-> { pitch_colors[pitch_types[1]], pitch_colors[pitch_types[2]] },
   circles  |-> { << Some(1), Some(2), Some(1) >>, << None, Some(0), Some(0) >> },
   names    |-> { "", "Kev" },
   paths    |-> { "M0,0L1,1" },
   older    |-> { 0, 1 }]

(* The whole catalog of the pitch-type dropdown (src/CBC.py:51-56), with   *)
(* every numeric field left at its default.                                *)
CatalogProfile ==
  [readings |-> { << Some(0), Some(0), Some(0) >> },
   pitches  |-> { pitch_types[i] : i \in 1..Len(pitch_types) },
   colors   |-> { pitch_colors[pitch_types[1]] },
   circles  |-> { << Some(0), Some(0), Some(0) >> },
   names    |-> { "", "Kev" },
   paths    |-> { "M0,0L1,1" },
   older    |-> { 0 }]

VARIABLES
  data_store,            \* children of the hidden div: None or the JSON of the frame
  drawing_store,         \* dcc.Store 'drawing-store'
  shaded_circles_store,  \* dcc.Store 'shaded-circles-store'
  figure,                \* figure of 'movement-graph': None or the last figure returned
  relayoutData,          \* retained relayoutData property of 'movement-graph'
  athlete_name,          \* value of the 'athlete-name' input
  call,                  \* trigger and arguments of the latest invocation of update_graph
  outcome                \* "none" before any invocation, then "ok" or "error" (it raised)

vars ==
  << data_store, drawing_store, shaded_circles_store, figure, relayoutData,
     athlete_name, call, outcome >>

----------------------------------------------------------------------------
(* The data frame and its JSON form (orient='split').                      *)

Columns == << "Horizontal (IN)", "Vertical (IN)", "Velo (MPH)", "Pitch", "Pitch#" >>

(* pd.DataFrame(columns=[...]) *)
EmptyFrame == [index |-> <<>>, rows |-> <<>>]

Row(h, v, s, p, n) == [Horizontal |-> h, Vertical |-> v, Velo |-> s, Pitch |-> p, PitchNo |-> n]

(* data.to_json(orient='split'): columns, index and one value list per row *)
to_json(data) ==
  [columns |-> Columns,
   index |-> data.index,
   data |-> [i \in 1..Len(data.rows) |->
               << data.rows[i].Horizontal, data.rows[i].Vertical, data.rows[i].Velo,
                  data.rows[i].Pitch, data.rows[i].PitchNo >>]]

(* The position of a column name in the JSON's column list. *)
ColumnAt(json, name) == CHOOSE k \in 1..Len(json.columns) : json.columns[k] = name

(* pd.read_json(data_store, orient='split') *)
read_json(json) ==
  [index |-> json.index,
   rows |-> [i \in 1..Len(json.data) |->
               Row(json.data[i][ColumnAt(json, "Horizontal (IN)")],
                   json.data[i][ColumnAt(json, "Vertical (IN)")],
                   json.data[i][ColumnAt(json, "Velo (MPH)")],
                   json.data[i][ColumnAt(json, "Pitch")],
                   json.data[i][ColumnAt(json, "Pitch#")])]]

(* src/CBC.py:159-162 *)
LoadData(store) == IF store = None THEN EmptyFrame ELSE read_json(store[1])

----------------------------------------------------------------------------
(* The branches of the action dispatch, src/CBC.py:172-207.                *)

RECURSIVE Range0(_)
(* The index 0..n-1 that pd.concat(..., ignore_index=True) assigns. *)
Range0(n) == IF n = 0 THEN <<>> ELSE Append(Range0(n - 1), n - 1)

(* The new row numbered by the size of the frame, without the "+ 1". *)
AddPointFromZero(data, vertical, horizontal, speed, pitch_type) ==
  [index |-> Range0(Len(data.rows) + 1),
   rows |-> Append(data.rows,
                   Row(vertical, horizontal, speed, pitch_type, Len(data.rows)))]

(* The new row with each column filled from the parameter of its own name: *)
(* 'Horizontal (IN)' from horizontal and 'Vertical (IN)' from vertical.    *)
AddPointByName(data, vertical, horizontal, speed, pitch_type) ==
  [index |-> Range0(Len(data.rows) + 1),
   rows |-> Append(data.rows,
                   Row(horizontal, vertical, speed, pitch_type, Len(data.rows) + 1))]

(* src/CBC.py:174-181: the new row and the concatenation.  The parameters  *)
(* are the callback's parameters vertical, horizontal, speed, pitch_type.  *)
AddPoint(data, vertical, horizontal, speed, pitch_type) ==
  [index |-> Range0(Len(data.rows) + 1),
   rows |-> Append(data.rows,
                   Row(vertical, horizontal, speed, pitch_type, Len(data.rows) + 1))]

(* data.iloc[1:]: the first row removed instead of the last *)
DeleteOldest(data) ==
  [index |-> Tail(data.index), rows |-> Tail(data.rows)]

(* src/CBC.py:184: data.iloc[:-1] *)
DeleteRecent(data) ==
  [index |-> SubSeq(data.index, 1, Len(data.index) - 1),
   rows |-> SubSeq(data.rows, 1, Len(data.rows) - 1)]

(* The frame left as it is. *)
DeleteNothing(data) == data

(* src/CBC.py:187 *)
DeleteAll(data) == EmptyFrame

(* src/CBC.py:190: drawing_store[:-1] *)
DeleteLastDrawing(store) == SubSeq(store, 1, Len(store) - 1)

(* src/CBC.py:195-198: arithmetic on None raises TypeError *)
CircleRaises(circle_x, circle_y, circle_radius) ==
  circle_x = None \/ circle_y = None \/ circle_radius = None

(* src/CBC.py:193-203 *)
NewCircle(circle_x, circle_y, circle_radius, color) ==
  [type |-> "circle",
   x0 |-> circle_x[1] - circle_radius[1],
   x1 |-> circle_x[1] + circle_radius[1],
   y0 |-> circle_y[1] - circle_radius[1],
   y1 |-> circle_y[1] + circle_radius[1],
   line |-> [color |-> color, width |-> 2],
   fillcolor |-> color,
   opacity |-> "0.3",
   layer |-> "below"]

(* src/CBC.py:204 *)
AddShadedCircle(store, circle) == Append(store, circle)

(* src/CBC.py:207: shaded_circles_store[:-1] *)
DeleteShadedCircle(store) == SubSeq(store, 1, Len(store) - 1)

----------------------------------------------------------------------------
(* Statistics, src/CBC.py:209-221.                                         *)

RECURSIVE SumSeq(_)
SumSeq(s) == IF s = <<>> THEN 0 ELSE s[1] + SumSeq(Tail(s))

(* The numbers of a column, its missing values skipped (skipna). *)
Present(column) ==
  LET kept == SelectSeq(column, LAMBDA x : x # None)
  IN  [i \in 1..Len(kept) |-> kept[i][1]]

(* Series.mean(): NaN when no value is present *)
Mean(column) ==
  LET xs == Present(column)
  IN  IF Len(xs) = 0 THEN None ELSE Some([num |-> SumSeq(xs), den |-> Len(xs)])

(* Series.var(): ddof=1, NaN when fewer than two values are present.       *)
(* sum((x - mean)^2) / (n - 1) = (n * sum(x^2) - sum(x)^2) / (n * (n - 1)) *)
Var(column) ==
  LET xs == Present(column)
      n  == Len(xs)
      sq == [i \in 1..n |-> xs[i] * xs[i]]
  IN  IF n < 2 THEN None
      ELSE Some([num |-> n * SumSeq(sq) - SumSeq(xs) * SumSeq(xs), den |-> n * (n - 1)])

(* data['Pitch'].unique(): the pitch types in order of first appearance *)
UniquePitches(data) ==
  LET first == SelectSeq(Range0(Len(data.rows)),
                         LAMBDA k : \A j \in 1..k : data.rows[j].Pitch # data.rows[k + 1].Pitch)
  IN  [i \in 1..Len(first) |-> data.rows[first[i] + 1].Pitch]

(* data[data['Pitch'] == pitch] *)
PitchData(data, pitch) == SelectSeq(data.rows, LAMBDA r : r.Pitch = pitch)

(* src/CBC.py:210-221 *)
VarianceData(data) ==
  LET pitches == UniquePitches(data)
      entry(pitch) ==
        LET pitch_data == PitchData(data, pitch)
            hs == [i \in 1..Len(pitch_data) |-> pitch_data[i].Horizontal]
            vs == [i \in 1..Len(pitch_data) |-> pitch_data[i].Vertical]
        IN  [Pitch |-> pitch,
             HorizontalVariance |-> Var(hs),
             VerticalVariance |-> Var(vs),
             VerticalMean |-> Mean(vs),
             HorizontalMean |-> Mean(hs)]
  IN  [i \in 1..Len(pitches) |-> entry(pitches[i])]

----------------------------------------------------------------------------
(* The figure, src/CBC.py:223-297.                                         *)

(* The title built from the name without the test for an empty name. *)
TitleAlwaysNamed(name) == << name, " Pitch Movement Visualization" >>

(* src/CBC.py:226 *)
Title(name) ==
  IF name # ""
  THEN << name, " Pitch Movement Visualization" >>
  ELSE << "Pitch Movement Visualization" >>

(* src/CBC.py:224-228: px.scatter makes one trace per pitch type, colored  *)
(* by color_discrete_map, with one point per row of that type; x is the    *)
(* column 'Horizontal (IN)', y the column 'Vertical (IN)', and the hover   *)
(* data are 'Velo (MPH)', 'Pitch' and 'Pitch#'.  A pitch type that is no   *)
(* key of color_discrete_map raises nothing: px.scatter gives its trace a  *)
(* color of its default sequence.                                          *)
Scatter(data) ==
  LET pitches == UniquePitches(data)
      point(r) == [x |-> r.Horizontal, y |-> r.Vertical,
                   hover |-> [Velo |-> r.Velo, Pitch |-> r.Pitch, PitchNo |-> r.PitchNo]]
      trace(pitch) ==
        LET pitch_data == PitchData(data, pitch)
        IN  [name |-> pitch,
             color |-> IF pitch \in DOMAIN pitch_colors
                       THEN pitch_colors[pitch] ELSE "#636efa",
             points |-> [i \in 1..Len(pitch_data) |-> point(pitch_data[i])]]
  IN  [i \in 1..Len(pitches) |-> trace(pitches[i])]

(* src/CBC.py:267: both variances are numbers *)
HasVariance(var) == var.HorizontalVariance # None /\ var.VerticalVariance # None

(* src/CBC.py:266-269: pitch_colors[var['Pitch']] raises KeyError for a    *)
(* pitch type of the frame that is no key of the table and whose summary   *)
(* is drawn.                                                               *)
ColorLookupFails(data) ==
  \E pitch \in {data.rows[i].Pitch : i \in 1..Len(data.rows)} \ DOMAIN pitch_colors :
    LET variance_data == VarianceData(data)
    IN  \E i \in 1..Len(variance_data) :
          variance_data[i].Pitch = pitch /\ HasVariance(variance_data[i])

(* src/CBC.py:269-280 *)
VarianceShape(var) ==
  [type |-> "circle",
   x0 |-> [mean |-> var.HorizontalMean[1], sign |-> -1, sqrt_of |-> var.HorizontalVariance[1]],
   x1 |-> [mean |-> var.HorizontalMean[1], sign |-> 1, sqrt_of |-> var.HorizontalVariance[1]],
   y0 |-> [mean |-> var.VerticalMean[1], sign |-> -1, sqrt_of |-> var.VerticalVariance[1]],
   y1 |-> [mean |-> var.VerticalMean[1], sign |-> 1, sqrt_of |-> var.VerticalVariance[1]],
   line |-> [color |-> pitch_colors[var.Pitch], width |-> 2, dash |-> "dot"],
   layer |-> "below"]

(* src/CBC.py:266-280 *)
VarianceShapes(variance_data) ==
  LET drawn == SelectSeq(variance_data, HasVariance)
  IN  [i \in 1..Len(drawn) |-> VarianceShape(drawn[i])]

(* src/CBC.py:283: relayoutData and 'shapes' in relayoutData *)
HasShapes(relayout) == relayout # None /\ "shapes" \in DOMAIN relayout[1]

(* relayoutData['shapes'][0]: the oldest shape of the payload, recolored *)
OldestShape(relayout, color) ==
  LET shapes == relayout[1].shapes
  IN  [shapes[1] EXCEPT !.line = [color |-> color, width |-> 2]]

(* src/CBC.py:285-287: the newest shape of the payload, recolored *)
NewShape(relayout, color) ==
  LET shapes == relayout[1].shapes
  IN  [shapes[Len(shapes)] EXCEPT !.line = [color |-> color, width |-> 2]]

(* src/CBC.py:283-289 *)
HandleDrawing(store, relayout, color) ==
  IF HasShapes(relayout) THEN Append(store, NewShape(relayout, color)) ELSE store

(* The shaded circles added to the figure before the drawings. *)
BuildFigureCirclesFirst(data, name, drawings, circles) ==
  [data |-> Scatter(data),
   title |-> Title(name),
   shapes |-> VarianceShapes(VarianceData(data)) \o circles \o drawings]

(* src/CBC.py:224-297: the traces, the title and the shapes in the order   *)
(* of the add_shape calls.                                                 *)
BuildFigure(data, name, drawings, circles) ==
  [data |-> Scatter(data),
   title |-> Title(name),
   shapes |-> VarianceShapes(VarianceData(data)) \o drawings \o circles]

----------------------------------------------------------------------------
(* The callback, src/CBC.py:157-302.                                       *)

Buttons ==
  { "add-point", "delete-recent", "delete-all", "reset-axes", "delete-last-drawing",
    "add-shaded-circle", "delete-most-recent-shaded-circle" }

(* n_clicks of every button when `button` has just been clicked (None: on  *)
(* the initial load).  A clicked button's count is at least 1; the counts  *)
(* of the others are read by no branch that can be taken.                  *)
Clicks(button) == [b \in Buttons |-> IF Some(b) = button THEN 1 ELSE 0]

(* A branch of the dispatch when a mistyped test lets it match too much:   *)
(* the first branch also takes the clicks of 'delete-recent'.              *)
BranchFirstTakesDelete(button_id, clicks, data, drawings, circles) ==
  IF button_id \in {Some("add-point"), Some("delete-recent")} /\ clicks[button_id[1]] > 0
  THEN Some("add-point")
  ELSE IF button_id = Some("delete-all") /\ clicks["delete-all"] > 0 THEN button_id
  ELSE IF button_id = Some("delete-last-drawing") /\ clicks["delete-last-drawing"] > 0
          /\ drawings # <<>> THEN button_id
  ELSE IF button_id = Some("add-shaded-circle") /\ clicks["add-shaded-circle"] > 0
  THEN button_id
  ELSE IF button_id = Some("delete-most-recent-shaded-circle")
          /\ clicks["delete-most-recent-shaded-circle"] > 0 /\ circles # <<>> THEN button_id
  ELSE None

(* The dispatch with one more branch: a click on 'reset-axes' taken as a   *)
(* click on 'delete-all'.                                                  *)
BranchResetClears(button_id, clicks, data, drawings, circles) ==
  IF button_id = Some("add-point") /\ clicks["add-point"] > 0 THEN button_id
  ELSE IF button_id = Some("delete-recent") /\ clicks["delete-recent"] > 0
          /\ data.rows # <<>> THEN button_id
  ELSE IF button_id = Some("delete-all") /\ clicks["delete-all"] > 0 THEN button_id
  ELSE IF button_id = Some("reset-axes") /\ clicks["reset-axes"] > 0
  THEN Some("delete-all")
  ELSE IF button_id = Some("delete-last-drawing") /\ clicks["delete-last-drawing"] > 0
          /\ drawings # <<>> THEN button_id
  ELSE IF button_id = Some("add-shaded-circle") /\ clicks["add-shaded-circle"] > 0
  THEN button_id
  ELSE IF button_id = Some("delete-most-recent-shaded-circle")
          /\ clicks["delete-most-recent-shaded-circle"] > 0 /\ circles # <<>> THEN button_id
  ELSE None

(* src/CBC.py:172-207: the branch of the if/elif chain that is taken, by   *)
(* the id of its button (None when no branch is taken).                    *)
Branch(button_id, clicks, data, drawings, circles) ==
  IF button_id = Some("add-point") /\ clicks["add-point"] > 0 THEN button_id
  ELSE IF button_id = Some("delete-recent") /\ clicks["delete-recent"] > 0
          /\ data.rows # <<>> THEN button_id
  ELSE IF button_id = Some("delete-all") /\ clicks["delete-all"] > 0 THEN button_id
  ELSE IF button_id = Some("delete-last-drawing") /\ clicks["delete-last-drawing"] > 0
          /\ drawings # <<>> THEN button_id
  ELSE IF button_id = Some("add-shaded-circle") /\ clicks["add-shaded-circle"] > 0
  THEN button_id
  ELSE IF button_id = Some("delete-most-recent-shaded-circle")
          /\ clicks["delete-most-recent-shaded-circle"] > 0 /\ circles # <<>> THEN button_id
  ELSE None

(* update_graph: the parameters are the function's, in the order of its    *)
(* signature (the n_clicks values as one function, relayoutData and        *)
(* athlete_name, then the State values).  The result is what Dash gets:    *)
(* raised (the TypeError of lines 195-198 or the KeyError of line 269), or *)
(* the four outputs.                                                       *)
update_graph(button_id, clicks, relayout, name, vertical, horizontal, speed, pitch_type, color, circle_x, circle_y, circle_radius, store_data, store_drawings, store_circles) ==
  LET data0 == LoadData(store_data)
      branch == Branch(button_id, clicks, data0, store_drawings, store_circles)
      data == IF branch = Some("add-point")
              THEN AddPoint(data0, vertical, horizontal, speed, pitch_type)
              ELSE IF branch = Some("delete-recent") THEN DeleteRecent(data0)
              ELSE IF branch = Some("delete-all") THEN DeleteAll(data0)
              ELSE data0
      drawings1 == IF branch = Some("delete-last-drawing")
                   THEN DeleteLastDrawing(store_drawings) ELSE store_drawings
      raised == \/ branch = Some("add-shaded-circle")
                   /\ CircleRaises(circle_x, circle_y, circle_radius)
                \/ ColorLookupFails(data)
      circles == IF branch = Some("add-shaded-circle")
                 THEN AddShadedCircle(store_circles,
                                      NewCircle(circle_x, circle_y, circle_radius, color))
                 ELSE IF branch = Some("delete-most-recent-shaded-circle")
                 THEN DeleteShadedCircle(store_circles)
                 ELSE store_circles
      drawings == HandleDrawing(drawings1, relayout, color)
  IN  IF raised THEN [raised |-> TRUE]
      ELSE [raised |-> FALSE,
            figure |-> BuildFigure(data, name, drawings, circles),
            data_json |-> to_json(data),
            drawing_store |-> drawings,
            shaded_circles_store |-> circles]

----------------------------------------------------------------------------
(* The browser: the widgets, the stores and one invocation per event.      *)

(* Dash calls update_graph with the Input values and then the State values *)
(* in the order of the decorator's lists (src/CBC.py:136-155): the value   *)
(* of 'horizontal-movement' is bound to the parameter vertical and the     *)
(* value of 'vertical-movement' to the parameter horizontal.  The outputs  *)
(* are written back; when the callback raises, no output is written.       *)
Invoke(button_id, relayout, name, horizontal_movement, vertical_movement, pitch_speed, pitch_type, color, circle_x, circle_y, circle_radius) ==
  \E result \in {update_graph(button_id, Clicks(button_id), relayout, name,
                             horizontal_movement, vertical_movement, pitch_speed,
                             pitch_type, color, circle_x, circle_y, circle_radius,
                             data_store, drawing_store, shaded_circles_store)} :
      /\ call' = Some(
                 [button_id |-> button_id,
                  relayoutData |-> relayout,
                  athlete_name |-> name,
                  horizontal_movement |-> horizontal_movement,
                  vertical_movement |-> vertical_movement,
                  pitch_speed |-> pitch_speed,
                  pitch_type |-> pitch_type,
                  draw_color |-> color,
                  circle_x |-> circle_x,
                  circle_y |-> circle_y,
                  circle_radius |-> circle_radius,
                  data_store |-> data_store,
                  drawing_store |-> drawing_store,
                  shaded_circles_store |-> shaded_circles_store])
      /\ relayoutData' = relayout
      /\ athlete_name' = name
      /\ IF result.raised
         THEN /\ outcome' = "error"
              /\ UNCHANGED << data_store, drawing_store, shaded_circles_store, figure >>
         ELSE /\ Len(result.data_json.data) <= MaxRecords
              /\ Len(result.drawing_store) <= MaxDrawings
              /\ Len(result.shaded_circles_store) <= MaxCircles
              /\ outcome' = "ok"
              /\ data_store' = Some(result.data_json)
              /\ drawing_store' = result.drawing_store
              /\ shaded_circles_store' = result.shaded_circles_store
              /\ figure' = Some(result.figure)

(* An event that reads no numeric field and no pitch type.  The draw color *)
(* is read when the retained relayoutData lists shapes.                    *)
Event(P, button_id, relayout, name) ==
  \E color \in (IF HasShapes(relayout) THEN P.colors ELSE {DefaultColor}) :
    Invoke(button_id, relayout, name, DefaultNumber, DefaultNumber, DefaultNumber,
           DefaultPitch, color, DefaultNumber, DefaultNumber, DefaultNumber)

(* The page has loaded: Dash's first invocation, with no trigger. *)
InitialLoad(P) ==
  /\ outcome = "none"
  /\ Event(P, None, relayoutData, athlete_name)

ClickAddPoint(P) ==
  /\ outcome # "none"
  /\ \E reading \in P.readings, pitch \in P.pitches,
        color \in (IF HasShapes(relayoutData) THEN P.colors ELSE {DefaultColor}) :
       Invoke(Some("add-point"), relayoutData, athlete_name, reading[1], reading[2],
              reading[3], pitch, color, DefaultNumber, DefaultNumber, DefaultNumber)

ClickDeleteRecent(P) ==
  /\ outcome # "none"
  /\ Event(P, Some("delete-recent"), relayoutData, athlete_name)

ClickDeleteAll(P) ==
  /\ outcome # "none"
  /\ Event(P, Some("delete-all"), relayoutData, athlete_name)

ClickResetAxes(P) ==
  /\ outcome # "none"
  /\ Event(P, Some("reset-axes"), relayoutData, athlete_name)

ClickDeleteLastDrawing(P) ==
  /\ outcome # "none"
  /\ Event(P, Some("delete-last-drawing"), relayoutData, athlete_name)

ClickAddShadedCircle(P) ==
  /\ outcome # "none"
  /\ \E circle \in P.circles, color \in P.colors :
       Invoke(Some("add-shaded-circle"), relayoutData, athlete_name, DefaultNumber,
              DefaultNumber, DefaultNumber, DefaultPitch, color, circle[1], circle[2],
              circle[3])

ClickDeleteShadedCircle(P) ==
  /\ outcome # "none"
  /\ Event(P, Some("delete-most-recent-shaded-circle"), relayoutData, athlete_name)

(* The shape a draw gesture adds to the layout, before the callback. *)
RawPath(path) == [type |-> "path", path |-> path, line |-> [color |-> "#444", width |-> 4]]

(* A draw gesture completes: Plotly reports the layout's shapes, the new   *)
(* one last, and Dash invokes the callback for the changed relayoutData.   *)
Draw(P) ==
  /\ outcome # "none"
  /\ \E path \in P.paths, k \in P.older :
       /\ k <= Len(figure[1].shapes)
       /\ Event(P, Some("movement-graph"),
                Some([shapes |-> Append(SubSeq(figure[1].shapes, 1, k), RawPath(path))]),
                athlete_name)

(* Another relayout event (a zoom, a resize): a payload without 'shapes'. *)
Relayout(P) ==
  /\ outcome # "none"
  /\ Event(P, Some("movement-graph"), Some([autosize |-> TRUE]), athlete_name)

TypeAthleteName(P) ==
  /\ outcome # "none"
  /\ \E name \in P.names \ {athlete_name} :
       Event(P, Some("athlete-name"), relayoutData, name)

(* src/CBC.py:45, 119-125: the layout before the first invocation *)
Init ==
  /\ data_store = None
  /\ drawing_store = <<>>
  /\ shaded_circles_store = <<>>
  /\ figure = None
  /\ relayoutData = None
  /\ athlete_name = ""
  /\ call = None
  /\ outcome = "none"

Next ==
  \/ InitialLoad(PointsProfile)
  \/ ClickAddPoint(PointsProfile)
  \/ ClickDeleteRecent(PointsProfile)
  \/ ClickDeleteAll(PointsProfile)
  \/ ClickResetAxes(PointsProfile)
  \/ ClickDeleteLastDrawing(PointsProfile)
  \/ ClickAddShadedCircle(PointsProfile)
  \/ ClickDeleteShadedCircle(PointsProfile)
  \/ Draw(PointsProfile)
  \/ Relayout(PointsProfile)
  \/ TypeAthleteName(PointsProfile)

Spec == Init /\ [][Next]_vars

NextShapes ==
  \/ InitialLoad(ShapesProfile)
  \/ ClickAddPoint(ShapesProfile)
  \/ ClickDeleteRecent(ShapesProfile)
  \/ ClickDeleteAll(ShapesProfile)
  \/ ClickResetAxes(ShapesProfile)
  \/ ClickDeleteLastDrawing(ShapesProfile)
  \/ ClickAddShadedCircle(ShapesProfile)
  \/ ClickDeleteShadedCircle(ShapesProfile)
  \/ Draw(ShapesProfile)
  \/ Relayout(ShapesProfile)
  \/ TypeAthleteName(ShapesProfile)

SpecShapes == Init /\ [][NextShapes]_vars

(* A session that uses the pitch panel only, with every pitch type of the  *)
(* dropdown: the events that can change the pitch store.                   *)
NextCatalog ==
  \/ InitialLoad(CatalogProfile)
  \/ ClickAddPoint(CatalogProfile)
  \/ ClickDeleteRecent(CatalogProfile)
  \/ ClickDeleteAll(CatalogProfile)

SpecCatalog == Init /\ [][NextCatalog]_vars

----------------------------------------------------------------------------
(* What the properties below speak of.                                     *)

(* The arguments of the latest invocation. *)
Arg == call[1]

(* The latest invocation was triggered by the component `id`. *)
Triggered(id) == call # None /\ Arg.button_id = Some(id)

(* The records in the pitch store now, and those the latest invocation got. *)
Records == LoadData(data_store).rows
RecordsBefore == LoadData(Arg.data_store).rows

(* The sequence s without its last element. *)
Front(s) == SubSeq(s, 1, Len(s) - 1)

(* The number of scatter points of the scene. *)
RECURSIVE PointCount(_)
PointCount(traces) ==
  IF traces = <<>> THEN 0 ELSE Len(traces[1].points) + PointCount(Tail(traces))

(* The number of variance shapes (dotted circles) of a pitch type in the scene. *)
VarianceShapeCount(shapes, pitch) ==
  Cardinality({i \in 1..Len(shapes) :
                 /\ "dash" \in DOMAIN shapes[i].line
                 /\ shapes[i].line.color = pitch_colors[pitch]})

(* The number of records of a pitch type. *)
RecordCount(rows, pitch) == Cardinality({i \in 1..Len(rows) : rows[i].Pitch = pitch})

AllPitches == {pitch_types[i] : i \in 1..Len(pitch_types)}

----------------------------------------------------------------------------
(* C1: the records of the pitch store carry, in insertion order, exactly   *)
(* the sequence numbers 1..N, N being the number of records, and an add    *)
(* point stores one more record, numbered (size before the insertion) + 1. *)
C1_SequenceNumbers ==
  /\ \A i \in 1..Len(Records) : Records[i].PitchNo = i
  /\ Triggered("add-point") /\ outcome = "ok" =>
       /\ Len(Records) = Len(RecordsBefore) + 1
       /\ Records[Len(Records)].PitchNo = Len(RecordsBefore) + 1

(* An add point on a store that already holds a record. *)
C1_Witness ==
  /\ Triggered("add-point")
  /\ Len(RecordsBefore) >= 1
  /\ Len(Records) = Len(RecordsBefore) + 1

(* C2: an invocation whose trigger is not a draw event leaves the drawings *)
(* list as it was, whatever relayoutData still holds.                      *)
C2_OnlyDrawEventsDraw ==
  call # None /\ Arg.button_id # Some("movement-graph") =>
    drawing_store = Arg.drawing_store

(* C3: remove last drawing leaves the first n-1 drawings of a list of n    *)
(* drawings, unchanged and in order, and an empty list empty.              *)
C3_DeleteLastDrawing ==
  Triggered("delete-last-drawing") =>
    drawing_store = Front(Arg.drawing_store)

(* C4: the color of a committed drawing is fixed: a drawing that is still  *)
(* at its position after an invocation has the color it had before it.     *)
C4_ColorFixedAtCommit ==
  call # None =>
    \A i \in 1..Len(drawing_store) :
      i <= Len(Arg.drawing_store) /\ drawing_store[i].path = Arg.drawing_store[i].path =>
        drawing_store[i].line.color = Arg.drawing_store[i].line.color

(* C5: the scene has one scatter point per stored record, and for every    *)
(* pitch type one variance shape if the store holds at least two records   *)
(* of the type and none otherwise.                                         *)
C5_VarianceShapeIffTwoRecords ==
  figure # None =>
    /\ PointCount(figure[1].data) = Len(Records)
    /\ \A pitch \in AllPitches :
         VarianceShapeCount(figure[1].shapes, pitch) =
           IF RecordCount(Records, pitch) >= 2 THEN 1 ELSE 0

(* C6: after a clear all the pitch store is empty, and an add point on the *)
(* store a clear all leaves stores a single record, numbered 1.            *)
C6_ClearThenAdd ==
  /\ Triggered("delete-all") => outcome = "ok" /\ Records = <<>>
  /\ Triggered("add-point") /\ Arg.data_store = Some(to_json(EmptyFrame)) =>
       Len(Records) = 1 /\ Records[1].PitchNo = 1

(* A clear all of a store that held two records at least. *)
C6_Witness ==
  /\ Triggered("delete-all")
  /\ Len(RecordsBefore) >= 2
  /\ Records = <<>>

(* C7: remove last point on an empty pitch store raises nothing, leaves    *)
(* the store empty and returns a scene (one without points).               *)
C7_DeleteRecentOnEmpty ==
  Triggered("delete-recent") /\ RecordsBefore = <<>> =>
    /\ outcome = "ok"
    /\ Records = <<>>
    /\ figure # None
    /\ PointCount(figure[1].data) = 0

(* A remove last point on an empty store, the page being loaded. *)
C7_Witness ==
  /\ Triggered("delete-recent")
  /\ Arg.data_store # None
  /\ RecordsBefore = <<>>
  /\ outcome = "ok"

(* C8: remove last point on a non-empty pitch store removes the record     *)
(* with the highest sequence number and no other; the other records keep   *)
(* their positions, field values and sequence numbers.                     *)
C8_DeleteRecentRemovesLast ==
  Triggered("delete-recent") /\ RecordsBefore # <<>> =>
    /\ outcome = "ok"
    /\ Len(Records) = Len(RecordsBefore) - 1
    /\ \A i \in 1..Len(Records) : Records[i] = RecordsBefore[i]
    /\ \A i \in 1..Len(Records) :
         Records[i].PitchNo < RecordsBefore[Len(RecordsBefore)].PitchNo

(* A remove last point on a store of two records. *)
C8_Witness ==
  /\ Triggered("delete-recent")
  /\ Len(RecordsBefore) = 2
  /\ Len(Records) = 1

(* The circle the inputs of the latest invocation describe. *)
CircleOfInputs ==
  [type |-> "circle",
   x0 |-> Arg.circle_x[1] - Arg.circle_radius[1],
   x1 |-> Arg.circle_x[1] + Arg.circle_radius[1],
   y0 |-> Arg.circle_y[1] - Arg.circle_radius[1],
   y1 |-> Arg.circle_y[1] + Arg.circle_radius[1],
   line |-> [color |-> Arg.draw_color, width |-> 2],
   fillcolor |-> Arg.draw_color,
   opacity |-> "0.3",
   layer |-> "below"]

(* C9: add shaded circle appends one circle, built from its inputs, after  *)
(* the existing ones; remove last shaded circle drops the last one (none   *)
(* of an empty list); every other invocation leaves the list as it was.    *)
C9_ShadedCirclesFrame ==
  call # None =>
    IF Arg.button_id = Some("add-shaded-circle")
    THEN /\ Len(shaded_circles_store) = Len(Arg.shaded_circles_store) + 1
         /\ Front(shaded_circles_store) = Arg.shaded_circles_store
         /\ shaded_circles_store[Len(shaded_circles_store)] = CircleOfInputs
    ELSE IF Arg.button_id = Some("delete-most-recent-shaded-circle")
    THEN shaded_circles_store = Front(Arg.shaded_circles_store)
    ELSE shaded_circles_store = Arg.shaded_circles_store

(* C10: an invocation triggered by a relayoutData that lists shapes        *)
(* appends one shape to the drawings: the last shape of the payload, its   *)
(* line set to the selected draw color and width 2; the drawings stored    *)
(* before keep their positions and contents.                               *)
C10_DrawAppendsNewest ==
  Triggered("movement-graph") /\ "shapes" \in DOMAIN Arg.relayoutData[1] =>
    LET payload == Arg.relayoutData[1].shapes
        newest  == payload[Len(payload)]
        stored  == drawing_store[Len(drawing_store)]
    IN  /\ outcome = "ok"
        /\ Len(drawing_store) = Len(Arg.drawing_store) + 1
        /\ \A i \in 1..Len(Arg.drawing_store) : drawing_store[i] = Arg.drawing_store[i]
        /\ stored.type = newest.type
        /\ stored.path = newest.path
        /\ stored.line = [color |-> Arg.draw_color, width |-> 2]

(* A draw gesture on a layout that shows a shape already, drawn with the   *)
(* second color of the dropdown.                                           *)
C10_Witness ==
  /\ Triggered("movement-graph")
  /\ "shapes" \in DOMAIN Arg.relayoutData[1]
  /\ Len(Arg.relayoutData[1].shapes) = 2
  /\ Arg.draw_color = pitch_colors[pitch_types[2]]
  /\ Len(drawing_store) = Len(Arg.drawing_store) + 1

(* The three kinds of shape of a scene: a variance shape has a dotted      *)
(* line, a drawing is a path, a shaded circle has a fill color.            *)
IsVarianceShape(shape) == "dash" \in DOMAIN shape.line
IsDrawing(shape) == shape.type = "path"
IsShadedCircle(shape) == "fillcolor" \in DOMAIN shape
Layer(shape) == IF IsVarianceShape(shape) THEN 1 ELSE IF IsDrawing(shape) THEN 2 ELSE 3

NumberOf(x) == IF x = None THEN 0 ELSE x[1]

(* The fraction m is (sum of xs) / n. *)
IsMeanOf(m, xs, n) == m.num * n = SumSeq(xs) * m.den

(* The fraction v is (sum of the squared deviations of xs from their mean) *)
(* / (n - 1); n * (x - mean) = n * x - sum(xs).                            *)
IsSampleVarianceOf(v, xs, n) ==
  LET scaled == [i \in 1..Len(xs) |->
                   (n * xs[i] - SumSeq(xs)) * (n * xs[i] - SumSeq(xs))]
  IN  v.num * n * n * (n - 1) = v.den * SumSeq(scaled)

(* C12: for every pitch type with n >= 2 records the summary drawn in the  *)
(* scene has, on each axis, the mean (sum of values) / n and the variance  *)
(* (sum of squared deviations from the mean) / (n - 1).                    *)
C12_SampleMoments ==
  figure # None =>
    \A pitch \in AllPitches :
      LET rows == SelectSeq(Records, LAMBDA r : r.Pitch = pitch)
          n    == Len(rows)
          hs   == [i \in 1..n |-> NumberOf(rows[i].Horizontal)]
          vs   == [i \in 1..n |-> NumberOf(rows[i].Vertical)]
          shapes == figure[1].shapes
      IN  n >= 2 =>
            \E i \in 1..Len(shapes) :
              /\ IsVarianceShape(shapes[i])
              /\ shapes[i].line.color = pitch_colors[pitch]
              /\ IsMeanOf(shapes[i].x0.mean, hs, n)
              /\ IsSampleVarianceOf(shapes[i].x0.sqrt_of, hs, n)
              /\ IsMeanOf(shapes[i].y0.mean, vs, n)
              /\ IsSampleVarianceOf(shapes[i].y0.sqrt_of, vs, n)

(* C13: add point stores the value of the horizontal-movement input as the *)
(* record's horizontal break and the point's x, the value of the           *)
(* vertical-movement input as its vertical break and the point's y, and    *)
(* the point's tooltip carries velocity, pitch type and sequence number.   *)
C13_AxesNotExchanged ==
  Triggered("add-point") /\ outcome = "ok" =>
    LET record == Records[Len(Records)]
        traces == figure[1].data
    IN  /\ record.Horizontal = Arg.horizontal_movement
        /\ record.Vertical = Arg.vertical_movement
        /\ record.Velo = Arg.pitch_speed
        /\ record.Pitch = Arg.pitch_type
        /\ \E t \in 1..Len(traces) :
             /\ traces[t].name = Arg.pitch_type
             /\ traces[t].points[Len(traces[t].points)] =
                  [x |-> Arg.horizontal_movement,
                   y |-> Arg.vertical_movement,
                   hover |-> [Velo |-> Arg.pitch_speed, Pitch |-> Arg.pitch_type,
                              PitchNo |-> Len(Records)]]

(* An add point whose horizontal and vertical inputs are different numbers. *)
C13_Witness ==
  /\ Triggered("add-point")
  /\ outcome = "ok"
  /\ Arg.horizontal_movement # None
  /\ Arg.vertical_movement # None
  /\ Arg.horizontal_movement # Arg.vertical_movement
  /\ Len(Records) = Len(RecordsBefore) + 1

(* C14: the initial load (no trigger) and clear all always succeed, and a  *)
(* scene built from an empty pitch store has no points, no variance shapes *)
(* and, when the athlete label is empty, the title "Pitch Movement         *)
(* Visualization".                                                         *)
C14_EmptyStoreScene ==
  /\ call # None /\ Arg.button_id \in {None, Some("delete-all")} =>
       outcome = "ok" /\ Records = <<>>
  /\ figure # None /\ Records = <<>> =>
       /\ PointCount(figure[1].data) = 0
       /\ \A i \in 1..Len(figure[1].shapes) : ~IsVarianceShape(figure[1].shapes[i])
       /\ athlete_name = "" => figure[1].title = << "Pitch Movement Visualization" >>

(* Clear all on a store that held records, the athlete label being empty. *)
C14_Witness ==
  /\ Triggered("delete-all")
  /\ outcome = "ok"
  /\ RecordsBefore # <<>>
  /\ Records = <<>>
  /\ athlete_name = ""
  /\ figure[1].title = << "Pitch Movement Visualization" >>

(* Some numeric field that add point reads is empty. *)
PointFieldMissing ==
  None \in {Arg.horizontal_movement, Arg.vertical_movement, Arg.pitch_speed}

(* Some numeric field that add shaded circle reads is empty. *)
CircleFieldMissing == None \in {Arg.circle_x, Arg.circle_y, Arg.circle_radius}

(* The circle of the circle inputs, an empty field counting as zero. *)
CircleOfInputsOrZero ==
  [type |-> "circle",
   x0 |-> NumberOf(Arg.circle_x) - NumberOf(Arg.circle_radius),
   x1 |-> NumberOf(Arg.circle_x) + NumberOf(Arg.circle_radius),
   y0 |-> NumberOf(Arg.circle_y) - NumberOf(Arg.circle_radius),
   y1 |-> NumberOf(Arg.circle_y) + NumberOf(Arg.circle_radius),
   line |-> [color |-> Arg.draw_color, width |-> 2],
   fillcolor |-> Arg.draw_color,
   opacity |-> "0.3",
   layer |-> "below"]

(* C16: with a numeric field empty, add point and add shaded circle do not *)
(* raise, the empty field counts as zero, and the store gets one new item: *)
(* the record, or the circle, of the inputs with zero for the empty ones.  *)
C16_MissingNumericAsZero ==
  /\ Triggered("add-point") /\ PointFieldMissing =>
       /\ outcome = "ok"
       /\ Records = Append(RecordsBefore,
                           Row(Some(NumberOf(Arg.horizontal_movement)),
                               Some(NumberOf(Arg.vertical_movement)),
                               Some(NumberOf(Arg.pitch_speed)),
                               Arg.pitch_type, Len(RecordsBefore) + 1))
  /\ Triggered("add-shaded-circle") /\ CircleFieldMissing =>
       /\ outcome = "ok"
       /\ shaded_circles_store = Append(Arg.shaded_circles_store, CircleOfInputsOrZero)

(* C16, first half alone: add shaded circle with an empty numeric field    *)
(* does not raise.                                                         *)
C16_CircleDoesNotRaise ==
  Triggered("add-shaded-circle") /\ CircleFieldMissing => outcome = "ok"

(* The triggers other than add point, remove last point and clear all: a   *)
(* draw or relayout event of the graph, the four annotation buttons and    *)
(* the athlete label.                                                      *)
OtherTriggers ==
  { "movement-graph", "delete-last-drawing", "add-shaded-circle",
    "delete-most-recent-shaded-circle", "reset-axes", "athlete-name" }

(* C17: an invocation triggered by a draw event, remove last drawing, add  *)
(* shaded circle, remove last shaded circle, reset axes or a change of the *)
(* athlete label leaves the pitch store as it received it: the same        *)
(* records in the same order with the same sequence numbers, and the same  *)
(* serialized frame.                                                       *)
C17_PitchStoreFrame ==
  call # None /\ (\E id \in OtherTriggers : Arg.button_id = Some(id)) =>
    /\ Records = RecordsBefore
    /\ \A i \in 1..Len(Records) : Records[i].PitchNo = RecordsBefore[i].PitchNo
    /\ data_store = Arg.data_store

(* An add shaded circle that stores a circle while the pitch store holds   *)
(* two records.                                                            *)
C17_Witness ==
  /\ Triggered("add-shaded-circle")
  /\ outcome = "ok"
  /\ Len(shaded_circles_store) = Len(Arg.shaded_circles_store) + 1
  /\ Len(RecordsBefore) = 2
  /\ Records = RecordsBefore

(* C18: every pitch type of the dropdown's catalog is a key of the color   *)
(* table; so every stored record's pitch type has a color, the lookup made *)
(* for a variance shape never fails, and no invocation raises for it.      *)
C18_ColorTableTotal ==
  /\ \A i \in 1..Len(pitch_types) : pitch_types[i] \in DOMAIN pitch_colors
  /\ \A i \in 1..Len(Records) : Records[i].Pitch \in DOMAIN pitch_colors
  /\ ~ColorLookupFails(LoadData(data_store))
  /\ outcome # "error"

(* Two records of the catalog's eleventh type, the table's eighth entry,   *)
(* and their variance shape drawn in the color the table gives the type.   *)
C18_Witness ==
  /\ Len(Records) = 2
  /\ Records[1].Pitch = pitch_types[11]
  /\ Records[2].Pitch = pitch_types[11]
  /\ outcome = "ok"
  /\ \E i \in 1..Len(figure[1].shapes) :
       /\ IsVarianceShape(figure[1].shapes[i])
       /\ figure[1].shapes[i].line.color = "goldenrod"

====
